---- MODULE Spec2Model ----
(***************************************************************************)
(* VerbaVox ("AudioScript AI"): the upload queue of App, the per-file      *)
(* pipeline of FileProcessor (transcribe -> translate -> extract quotes),  *)
(* the remote calls of geminiService and the SRT text filter.              *)
(*                                                                         *)
(* A text is a sequence of one-character strings.  A nullable React state  *)
(* is a record: Null, or Some(v).                                          *)
(***************************************************************************)
EXTENDS Integers, Sequences, FiniteSets

VARIABLES
    files,           \* App: useState<File[]>
    addTimecodes,    \* App: useState(true)
    jobs,            \* one FileProcessor instance per entry of files
    pendingEffects,  \* instances whose useEffect(processTranscription) is scheduled
    transcribeCalls, \* transcribeAudio calls in flight
    translateCalls,  \* translateText calls in flight
    generateCalls,   \* generateScript calls in flight
    callsLeft,       \* remote calls the session may still issue (bounds the model)
    arg,             \* the input of the function or export handler under study
    out              \* what it returned, or the file it handed to the browser

vars == <<files, addTimecodes, jobs, pendingEffects, transcribeCalls,
          translateCalls, generateCalls, callsLeft, arg, out>>

----------------------------------------------------------------------------
(* Bounds of the model *)

\* Longest queue, and the remote calls of a session, of Spec.
MaxJobs == 2
MaxQueueCalls == 4
\* The remote calls of the one job of SpecJob.
MaxCalls == 5

----------------------------------------------------------------------------
(* Nullable values *)

Null == [tag |-> "null"]
Undefined == [tag |-> "undefined"]
Some(v) == [tag |-> "some", val |-> v]

\* JavaScript truthiness of a nullable string or array state: null, undefined
\* and the empty string are falsy; an array (also the empty one) is truthy.
TruthyText(x) == x.tag = "some" /\ x.val # <<>>
TruthyList(x) == x.tag = "some"

----------------------------------------------------------------------------
(* enum TranscriptionStatus: string-valued, compared with >=, > as strings *)

PENDING == "PENDING"
TRANSCRIBING == "TRANSCRIBING"
TRANSLATED == "TRANSLATED"
SUMMARIZED == "SUMMARIZED"
COMPLETED == "COMPLETED"
ERROR == "ERROR"

TranscriptionStatus == {PENDING, TRANSCRIBING, TRANSLATED, SUMMARIZED, COMPLETED, ERROR}

\* The code units of each enum value, in order.
StatusChars(s) ==
    CASE s = PENDING -> <<"P","E","N","D","I","N","G">>
      [] s = TRANSCRIBING -> <<"T","R","A","N","S","C","R","I","B","I","N","G">>
      [] s = TRANSLATED -> <<"T","R","A","N","S","L","A","T","E","D">>
      [] s = SUMMARIZED -> <<"S","U","M","M","A","R","I","Z","E","D">>
      [] s = COMPLETED -> <<"C","O","M","P","L","E","T","E","D">>
      [] s = ERROR -> <<"E","R","R","O","R">>

UpperCase == <<"A","B","C","D","E","F","G","H","I","J","K","L","M",
               "N","O","P","Q","R","S","T","U","V","W","X","Y","Z">>

CharCode(c) == CHOOSE i \in 1..Len(UpperCase) : UpperCase[i] = c

\* JavaScript's a < b on strings: lexicographic on code units.
RECURSIVE SeqLess(_, _)
SeqLess(a, b) ==
    IF b = <<>> THEN FALSE
    ELSE IF a = <<>> THEN TRUE
    ELSE IF CharCode(Head(a)) # CharCode(Head(b))
         THEN CharCode(Head(a)) < CharCode(Head(b))
         ELSE SeqLess(Tail(a), Tail(b))

StatusGE(a, b) == ~SeqLess(StatusChars(a), StatusChars(b))
StatusGT(a, b) == SeqLess(StatusChars(b), StatusChars(a))

----------------------------------------------------------------------------
(* Text helpers *)

Digits == {"0","1","2","3","4","5","6","7","8","9"}
WhiteSpace == {" ", "\t", "\r", "\n"}

IsDigit(c) == c \in Digits
IsSpace(c) == c \in WhiteSpace

\* String.prototype.split(/\r?\n/)
RECURSIVE SplitFrom(_, _, _, _)
SplitFrom(s, i, cur, acc) ==
    IF i > Len(s) THEN Append(acc, cur)
    ELSE IF s[i] = "\n" THEN SplitFrom(s, i + 1, <<>>, Append(acc, cur))
    ELSE IF s[i] = "\r" /\ i < Len(s) /\ s[i + 1] = "\n"
         THEN SplitFrom(s, i + 2, <<>>, Append(acc, cur))
    ELSE SplitFrom(s, i + 1, Append(cur, s[i]), acc)

SplitLines(s) == SplitFrom(s, 1, <<>>, <<>>)

\* String.prototype.split('\n')
RECURSIVE SplitLfFrom(_, _, _, _)
SplitLfFrom(s, i, cur, acc) ==
    IF i > Len(s) THEN Append(acc, cur)
    ELSE IF s[i] = "\n" THEN SplitLfFrom(s, i + 1, <<>>, Append(acc, cur))
    ELSE SplitLfFrom(s, i + 1, Append(cur, s[i]), acc)

\* Array.prototype.join('\n')
RECURSIVE JoinLines(_)
JoinLines(ls) ==
    IF ls = <<>> THEN <<>>
    ELSE IF Len(ls) = 1 THEN ls[1]
    ELSE ls[1] \o <<"\n">> \o JoinLines(Tail(ls))

\* String.prototype.trim()
RECURSIVE TrimLeft(_)
TrimLeft(s) == IF s # <<>> /\ IsSpace(Head(s)) THEN TrimLeft(Tail(s)) ELSE s

RECURSIVE TrimRight(_)
TrimRight(s) ==
    IF s # <<>> /\ IsSpace(s[Len(s)]) THEN TrimRight(SubSeq(s, 1, Len(s) - 1)) ELSE s

Trim(s) == TrimRight(TrimLeft(s))

\* line.includes('-->')
IncludesArrow(s) ==
    \E i \in 1..Len(s) :
        i + 2 <= Len(s) /\ s[i] = "-" /\ s[i + 1] = "-" /\ s[i + 2] = ">"

\* /^\d+$/.test(s)
IsAllDigits(s) == s # <<>> /\ \A i \in 1..Len(s) : IsDigit(s[i])

\* The filter predicate of stripSrtTimecodes: TRUE for a line that is kept.
KeepLine(line) ==
    LET isTimecode == IncludesArrow(line)
        isCounter == IsAllDigits(Trim(line))
    IN ~isTimecode /\ ~isCounter /\ Trim(line) # <<>>

stripSrtTimecodes(srtText) ==
    IF srtText = <<>> THEN <<>>
    ELSE JoinLines(SelectSeq(SplitLines(srtText), KeepLine))

\* /\d{2}:\d{2}:\d{2},\d{3}/ matched at position i of s
StampAt(s, i) ==
    /\ i + 11 <= Len(s)
    /\ IsDigit(s[i]) /\ IsDigit(s[i + 1]) /\ s[i + 2] = ":"
    /\ IsDigit(s[i + 3]) /\ IsDigit(s[i + 4]) /\ s[i + 5] = ":"
    /\ IsDigit(s[i + 6]) /\ IsDigit(s[i + 7]) /\ s[i + 8] = ","
    /\ IsDigit(s[i + 9]) /\ IsDigit(s[i + 10]) /\ IsDigit(s[i + 11])

\* /\d{2}:\d{2}:\d{2},\d{3}\s*-->\s*\d{2}:\d{2}:\d{2},\d{3}/.test(text)
hasSrtTimecodes(text) ==
    \E i \in 1..Len(text) :
        /\ StampAt(text, i)
        /\ \E a \in (i + 12)..Len(text) :
              /\ \A k \in (i + 12)..(a - 1) : IsSpace(text[k])
              /\ a + 2 <= Len(text)
              /\ text[a] = "-" /\ text[a + 1] = "-" /\ text[a + 2] = ">"
              /\ \E b \in (a + 3)..Len(text) :
                    /\ \A k \in (a + 3)..(b - 1) : IsSpace(text[k])
                    /\ StampAt(text, b)

----------------------------------------------------------------------------
(* The files a user can select, the language catalog, the remote service *)

AudioName == <<"a", ".", "m", "p", "3">>

FileA == [name |-> AudioName, size |-> 1, lastModified |-> 1]
FileB == [name |-> AudioName, size |-> 0, lastModified |-> 1]

FileSet == {FileA, FileB}

\* FileList delivered by one change or drop event.
Batches == UNION {[1..n -> FileSet] : n \in 1..MaxJobs}

LANGUAGES == << [code |-> "en", name |-> "English"],
                [code |-> "es", name |-> "Spanish"] >>

Stamp(d) == <<"0","0",":","0","0",":","0",d,",","0","0","0">>

\* What is said in a file: nothing in an empty file.
Speech(file) == IF file.size = 0 THEN <<>> ELSE <<"h","i">>

\* The service's answer to the transcription prompt: one SRT cue when the
\* prompt asks for SRT, the plain text otherwise.
TranscriptionOf(file, withTimecodes) ==
    IF Speech(file) = <<>> THEN <<>>
    ELSE IF withTimecodes
         THEN <<"1","\n">> \o Stamp("1") \o <<" ","-","-",">"," ">> \o Stamp("2")
                  \o <<"\n">> \o Speech(file)
         ELSE Speech(file)

IsLetter(c) == c \in {"h", "i", "e", "s"}

LanguageLetter(languageName) == IF languageName = "English" THEN "e" ELSE "s"

\* The service's answer to a translation prompt: the words translated, every
\* other character (counters, timecodes, line breaks) kept.
TranslationOf(text, languageName) ==
    [i \in 1..Len(text) |->
        IF IsLetter(text[i]) THEN LanguageLetter(languageName) ELSE text[i]]

\* The service's answer to the extraction prompt: one quote per non-blank
\* line of the text it was given.
QuotesOf(text) ==
    LET ls == SelectSeq(SplitLines(text), LAMBDA l : Trim(l) # <<>>)
    IN [i \in 1..Len(ls) |-> [speaker |-> <<"A">>, quote |-> ls[i]]]

TranscribeError == "Failed to transcribe audio."
TranslateError == "Failed to translate text."
GenerateError == "Failed to generate script."

----------------------------------------------------------------------------
(* State *)

\* useState initial values of a FileProcessor
NewJob ==
    [status |-> PENDING, transcript |-> Null, translation |-> Null,
     script |-> Null, error |-> Null, targetLanguage |-> LANGUAGES[2],
     isTranslating |-> FALSE, isGenerating |-> FALSE]

JobIds == 1..Len(jobs)

Init ==
    /\ files = <<>>
    /\ addTimecodes = TRUE
    /\ jobs = <<>>
    /\ pendingEffects = {}
    /\ transcribeCalls = {}
    /\ translateCalls = {}
    /\ generateCalls = {}
    /\ callsLeft = MaxQueueCalls
    /\ arg = Null
    /\ out = Null

\* Passive effects of a render run before the next event is handled.
Idle == pendingEffects = {}

----------------------------------------------------------------------------
(* App *)

\* The place of a new call among the calls of job j in flight, in issue order.
NextSeq(calls, j) ==
    LET seqs == {c.seq : c \in {d \in calls : d.job = j}}
    IN IF seqs = {} THEN 1 ELSE 1 + CHOOSE m \in seqs : \A n \in seqs : n <= m

SameFile(ef, sf) ==
    ef.name = sf.name /\ ef.size = sf.size /\ ef.lastModified = sf.lastModified

\* selectedFiles.filter(sf => !files.some(ef => same triple))
newFiles(selectedFiles, existing) ==
    SelectSeq(selectedFiles,
              LAMBDA sf : ~\E k \in 1..Len(existing) : SameFile(existing[k], sf))

\* handleFileChange / handleDrop -> handleFilesSelected; the new entries of
\* files mount one FileProcessor each, whose effect is then scheduled.
handleFilesSelected(selectedFiles) ==
    LET added == newFiles(selectedFiles, files)
    IN /\ Idle
       /\ Len(files) + Len(added) <= MaxJobs
       /\ Len(added) <= callsLeft
       /\ files' = files \o added
       /\ jobs' = jobs \o [i \in 1..Len(added) |-> NewJob]
       /\ pendingEffects' = (Len(files) + 1)..(Len(files) + Len(added))
       /\ UNCHANGED <<arg, out, addTimecodes, transcribeCalls, translateCalls,
                      generateCalls, callsLeft>>

\* TimecodeToggle onChange -> setAddTimecodes(e.target.checked): every mounted
\* FileProcessor gets a new processTranscription, so its effect runs again.
setAddTimecodes ==
    /\ Idle
    /\ Len(jobs) <= callsLeft
    /\ addTimecodes' = ~addTimecodes
    /\ pendingEffects' = JobIds
    /\ UNCHANGED <<arg, out, files, jobs, transcribeCalls, translateCalls,
                   generateCalls, callsLeft>>

----------------------------------------------------------------------------
(* FileProcessor: what renderContent offers *)

\* renderContent reaches its main return: neither the "Transcribing audio..."
\* spinner nor the "Transcription Failed" panel replaces the body.
BodyShown(job) ==
    /\ job.status # TRANSCRIBING
    /\ ~(job.status = ERROR /\ ~TruthyText(job.transcript))

\* {status >= TranscriptionStatus.COMPLETED && transcript && (<section> Translate ...)}
TranslateOffered(job) ==
    /\ BodyShown(job)
    /\ StatusGE(job.status, COMPLETED)
    /\ TruthyText(job.transcript)

\* {status >= TranscriptionStatus.TRANSLATED && translation && (<section> Generate Script ...)}
GenerateOffered(job) ==
    /\ BodyShown(job)
    /\ StatusGE(job.status, TRANSLATED)
    /\ TruthyText(job.translation)

\* {translation && addTimecodes && (<section> Download SRT Files ...)}: the
\* section holds the transcript button and the translation button.
SrtDownloadOffered(job, withTimecodes) ==
    /\ BodyShown(job)
    /\ TruthyText(job.translation)
    /\ withTimecodes

\* The "Transcription Failed" panel, which shows {error}.
ErrorPanelShown(job) ==
    /\ job.status # TRANSCRIBING
    /\ job.status = ERROR /\ ~TruthyText(job.transcript)

\* {error && status > TranscriptionStatus.COMPLETED && (<div> {error} ...)}
ErrorInlineShown(job) ==
    /\ BodyShown(job)
    /\ job.error.tag = "some" /\ job.error.val # ""
    /\ StatusGT(job.status, COMPLETED)

\* {script && (<section> Generated Script Quotes ... Download .docx ...)}
DocxOffered(job) == BodyShown(job) /\ TruthyList(job.script)

\* As SetJob, but with the state held once for all instances.
SetJobShared(j, job) == [k \in DOMAIN jobs |-> job]

\* The setters of one FileProcessor instance write that instance's state.
SetJob(j, job) == [jobs EXCEPT ![j] = job]

----------------------------------------------------------------------------
(* FileProcessor: transcription *)

\* useEffect -> processTranscription, up to the await
processTranscription(j) ==
    /\ j \in pendingEffects
    /\ callsLeft > 0
    /\ pendingEffects' = pendingEffects \ {j}
    /\ jobs' = SetJob(j, [jobs[j] EXCEPT !.status = TRANSCRIBING])
    /\ callsLeft' = callsLeft - 1
    /\ transcribeCalls' = transcribeCalls \cup
          {[seq |-> NextSeq(transcribeCalls, j), job |-> j, file |-> files[j],
            addTimecodes |-> addTimecodes]}
    /\ UNCHANGED <<arg, out, files, addTimecodes, translateCalls, generateCalls>>

\* transcribeAudio returns response.text; processTranscription resumes in try
TranscribeResolved(c) ==
    /\ Idle
    /\ c \in transcribeCalls
    /\ transcribeCalls' = transcribeCalls \ {c}
    /\ jobs' = SetJob(c.job,
          [jobs[c.job] EXCEPT
              !.transcript = Some(TranscriptionOf(c.file, c.addTimecodes)),
              !.status = COMPLETED])
    /\ UNCHANGED <<arg, out, files, addTimecodes, pendingEffects, translateCalls,
                   generateCalls, callsLeft>>

\* As TranscribeRejected, but the catch block also clears the transcript.
TranscribeRejectedClearing(c) ==
    /\ Idle
    /\ c \in transcribeCalls
    /\ transcribeCalls' = transcribeCalls \ {c}
    /\ jobs' = SetJob(c.job,
          [jobs[c.job] EXCEPT
              !.transcript = Null, !.error = Some(TranscribeError), !.status = ERROR])
    /\ UNCHANGED <<arg, out, files, addTimecodes, pendingEffects, translateCalls,
                   generateCalls, callsLeft>>

\* transcribeAudio throws; processTranscription resumes in catch
TranscribeRejected(c) ==
    /\ Idle
    /\ c \in transcribeCalls
    /\ transcribeCalls' = transcribeCalls \ {c}
    /\ jobs' = SetJob(c.job,
          [jobs[c.job] EXCEPT !.error = Some(TranscribeError), !.status = ERROR])
    /\ UNCHANGED <<arg, out, files, addTimecodes, pendingEffects, translateCalls,
                   generateCalls, callsLeft>>

----------------------------------------------------------------------------
(* FileProcessor: translation *)

\* <select onChange>: LANGUAGES.find(l => l.code === e.target.value) || LANGUAGES[0]
setTargetLanguage(j, code) ==
    /\ Idle
    /\ j \in JobIds
    /\ TranslateOffered(jobs[j])
    /\ LET found == {k \in 1..Len(LANGUAGES) : LANGUAGES[k].code = code}
           lang == IF found = {} THEN LANGUAGES[1]
                   ELSE LANGUAGES[CHOOSE k \in found : \A m \in found : k <= m]
       IN /\ lang # jobs[j].targetLanguage
          /\ jobs' = SetJob(j, [jobs[j] EXCEPT !.targetLanguage = lang])
    /\ UNCHANGED <<arg, out, files, addTimecodes, pendingEffects, transcribeCalls,
                   translateCalls, generateCalls, callsLeft>>

\* The translate button is rendered and not disabled.
TranslateClickable(job) == TranslateOffered(job) /\ ~job.isTranslating

\* handleTranslate, up to the await (translateText builds its prompt)
handleTranslate(j) ==
    /\ Idle
    /\ j \in JobIds
    /\ TranslateClickable(jobs[j])
    /\ callsLeft > 0
    /\ TruthyText(jobs[j].transcript)
    /\ jobs' = SetJob(j, [jobs[j] EXCEPT !.isTranslating = TRUE, !.error = Null])
    /\ callsLeft' = callsLeft - 1
    /\ translateCalls' = translateCalls \cup
          {[seq |-> NextSeq(translateCalls, j), job |-> j, text |-> jobs[j].transcript.val,
            targetLanguageName |-> jobs[j].targetLanguage.name,
            shouldPreserveTimecodes |-> hasSrtTimecodes(jobs[j].transcript.val)]}
    /\ UNCHANGED <<arg, out, files, addTimecodes, pendingEffects, transcribeCalls,
                   generateCalls>>

\* As TranslateResolved, but without setStatus(TRANSLATED).
TranslateResolvedNoStatus(c) ==
    /\ Idle
    /\ c \in translateCalls
    /\ translateCalls' = translateCalls \ {c}
    /\ jobs' = SetJob(c.job,
          [jobs[c.job] EXCEPT
              !.translation = Some(TranslationOf(c.text, c.targetLanguageName)),
              !.isTranslating = FALSE])
    /\ UNCHANGED <<arg, out, files, addTimecodes, pendingEffects, transcribeCalls,
                   generateCalls, callsLeft>>

\* translateText returns response.text; handleTranslate resumes in try, finally
TranslateResolved(c) ==
    /\ Idle
    /\ c \in translateCalls
    /\ translateCalls' = translateCalls \ {c}
    /\ jobs' = SetJob(c.job,
          [jobs[c.job] EXCEPT
              !.translation = Some(TranslationOf(c.text, c.targetLanguageName)),
              !.status = TRANSLATED,
              !.isTranslating = FALSE])
    /\ UNCHANGED <<arg, out, files, addTimecodes, pendingEffects, transcribeCalls,
                   generateCalls, callsLeft>>

\* As TranslateRejected, but the catch block also sets status ERROR, as the
\* catch block of processTranscription does.
TranslateRejectedToError(c) ==
    /\ Idle
    /\ c \in translateCalls
    /\ translateCalls' = translateCalls \ {c}
    /\ jobs' = SetJob(c.job,
          [jobs[c.job] EXCEPT
              !.error = Some(TranslateError), !.status = ERROR,
              !.isTranslating = FALSE])
    /\ UNCHANGED <<arg, out, files, addTimecodes, pendingEffects, transcribeCalls,
                   generateCalls, callsLeft>>

\* translateText throws; handleTranslate resumes in catch, finally
TranslateRejected(c) ==
    /\ Idle
    /\ c \in translateCalls
    /\ translateCalls' = translateCalls \ {c}
    /\ jobs' = SetJob(c.job,
          [jobs[c.job] EXCEPT !.error = Some(TranslateError), !.isTranslating = FALSE])
    /\ UNCHANGED <<arg, out, files, addTimecodes, pendingEffects, transcribeCalls,
                   generateCalls, callsLeft>>

----------------------------------------------------------------------------
(* FileProcessor: quote extraction *)

\* The generate button is rendered and not disabled.
GenerateClickable(job) == GenerateOffered(job) /\ ~job.isGenerating

\* const textForScript = addTimecodes && translation ? stripSrtTimecodes(translation) : translation
textForScript(withTimecodes, translation) ==
    IF withTimecodes /\ TruthyText(translation)
    THEN stripSrtTimecodes(translation.val)
    ELSE translation.val

\* handleGenerateScript, up to the await
handleGenerateScript(j) ==
    /\ Idle
    /\ j \in JobIds
    /\ GenerateClickable(jobs[j])
    /\ callsLeft > 0
    /\ TruthyText(jobs[j].translation)
    /\ jobs' = SetJob(j, [jobs[j] EXCEPT !.isGenerating = TRUE, !.error = Null])
    /\ callsLeft' = callsLeft - 1
    /\ generateCalls' = generateCalls \cup
          {[seq |-> NextSeq(generateCalls, j), job |-> j,
            text |-> textForScript(addTimecodes, jobs[j].translation)]}
    /\ UNCHANGED <<arg, out, files, addTimecodes, pendingEffects, transcribeCalls,
                   translateCalls>>

\* What JSON.parse(response.text).quotes can be when nothing throws: the
\* quotes, or undefined when the parsed object has no "quotes" member.
GenerateResults(text) == {Some(QuotesOf(text)), Undefined}

\* As GenerateResolved, but without the finally block's setIsGenerating(false).
GenerateResolvedStillGenerating(c, result) ==
    /\ Idle
    /\ c \in generateCalls
    /\ result \in GenerateResults(c.text)
    /\ generateCalls' = generateCalls \ {c}
    /\ jobs' = SetJob(c.job,
          [jobs[c.job] EXCEPT !.script = result, !.status = SUMMARIZED])
    /\ UNCHANGED <<arg, out, files, addTimecodes, pendingEffects, transcribeCalls,
                   translateCalls, callsLeft>>

\* generateScript returns jsonResponse.quotes; handleGenerateScript resumes
GenerateResolved(c, result) ==
    /\ Idle
    /\ c \in generateCalls
    /\ result \in GenerateResults(c.text)
    /\ generateCalls' = generateCalls \ {c}
    /\ jobs' = SetJob(c.job,
          [jobs[c.job] EXCEPT
              !.script = result, !.status = SUMMARIZED, !.isGenerating = FALSE])
    /\ UNCHANGED <<arg, out, files, addTimecodes, pendingEffects, transcribeCalls,
                   translateCalls, callsLeft>>

\* As GenerateRejected, but the catch block also drops the quotes stored before.
GenerateRejectedClearing(c) ==
    /\ Idle
    /\ c \in generateCalls
    /\ generateCalls' = generateCalls \ {c}
    /\ jobs' = SetJob(c.job,
          [jobs[c.job] EXCEPT
              !.script = Null, !.error = Some(GenerateError), !.isGenerating = FALSE])
    /\ UNCHANGED <<arg, out, files, addTimecodes, pendingEffects, transcribeCalls,
                   translateCalls, callsLeft>>

\* generateScript throws; handleGenerateScript resumes in catch, finally
GenerateRejected(c) ==
    /\ Idle
    /\ c \in generateCalls
    /\ generateCalls' = generateCalls \ {c}
    /\ jobs' = SetJob(c.job,
          [jobs[c.job] EXCEPT !.error = Some(GenerateError), !.isGenerating = FALSE])
    /\ UNCHANGED <<arg, out, files, addTimecodes, pendingEffects, transcribeCalls,
                   translateCalls, callsLeft>>

----------------------------------------------------------------------------
(* Specification *)

Next ==
    \/ \E selectedFiles \in Batches : handleFilesSelected(selectedFiles)
    \/ setAddTimecodes
    \/ \E j \in JobIds : processTranscription(j)
    \/ \E c \in transcribeCalls : TranscribeResolved(c)
    \/ \E c \in transcribeCalls : TranscribeRejected(c)
    \/ \E j \in JobIds : \E code \in {"en", "es"} : setTargetLanguage(j, code)
    \/ \E j \in JobIds : handleTranslate(j)
    \/ \E c \in translateCalls : TranslateResolved(c)
    \/ \E c \in translateCalls : TranslateRejected(c)
    \/ \E j \in JobIds : handleGenerateScript(j)
    \/ \E c \in generateCalls : \E result \in GenerateResults(c.text) :
          GenerateResolved(c, result)
    \/ \E c \in generateCalls : GenerateRejected(c)

Spec == Init /\ [][Next]_vars

\* A session in which one file was selected and no other file is: the job of
\* that file, just mounted.
InitJob ==
    /\ \E f \in FileSet : files = <<f>>
    /\ addTimecodes = TRUE
    /\ jobs = <<NewJob>>
    /\ pendingEffects = {1}
    /\ transcribeCalls = {}
    /\ translateCalls = {}
    /\ generateCalls = {}
    /\ callsLeft = MaxCalls
    /\ arg = Null
    /\ out = Null

NextJob ==
    \/ setAddTimecodes
    \/ \E j \in JobIds : processTranscription(j)
    \/ \E c \in transcribeCalls : TranscribeResolved(c)
    \/ \E c \in transcribeCalls : TranscribeRejected(c)
    \/ \E j \in JobIds : \E code \in {"en", "es"} : setTargetLanguage(j, code)
    \/ \E j \in JobIds : handleTranslate(j)
    \/ \E c \in translateCalls : TranslateResolved(c)
    \/ \E c \in translateCalls : TranslateRejected(c)
    \/ \E j \in JobIds : handleGenerateScript(j)
    \/ \E c \in generateCalls : \E result \in GenerateResults(c.text) :
          GenerateResolved(c, result)
    \/ \E c \in generateCalls : GenerateRejected(c)

SpecJob == InitJob /\ [][NextJob]_vars

----------------------------------------------------------------------------
(* Helpers of the properties *)

Quiet(j) ==
    /\ j \notin pendingEffects
    /\ \A c \in transcribeCalls \cup translateCalls \cup generateCalls : c.job # j

\* The number of remote calls of job j in flight.
InFlight(j) ==
    Cardinality({c \in transcribeCalls : c.job = j})
      + Cardinality({c \in translateCalls : c.job = j})
      + Cardinality({c \in generateCalls : c.job = j})

\* Some line of the text is a cue counter or holds a timecode arrow.
HasTimecodeOrCounterLine(text) ==
    LET ls == SplitLines(text)
    IN \E i \in 1..Len(ls) : IncludesArrow(ls[i]) \/ IsAllDigits(Trim(ls[i]))

----------------------------------------------------------------------------
(* C1: for a job in status Completed with transcript T and selected language
   L, handleTranslate issues exactly one translateText call, with text T and
   language name L.name; and the step in which that call succeeds stores its
   result R = the service's translation of (T, L.name) as translation, sets
   status Translated and leaves transcript as it was. *)
C1_TranslateCallsWithTranscriptAndStoresResult ==
    [][ /\ \A j \in JobIds :
              (handleTranslate(j) /\ jobs[j].status = COMPLETED) =>
                  /\ Cardinality(translateCalls' \ translateCalls) = 1
                  /\ \A c \in translateCalls' \ translateCalls :
                        /\ c.job = j
                        /\ c.text = jobs[j].transcript.val
                        /\ c.targetLanguageName = jobs[j].targetLanguage.name
        /\ \A c \in translateCalls :
              TranslateResolved(c) =>
                  /\ jobs'[c.job].translation =
                        Some(TranslationOf(c.text, c.targetLanguageName))
                  /\ jobs'[c.job].status = TRANSLATED
                  /\ jobs'[c.job].transcript = jobs[c.job].transcript
      ]_vars

\* A job whose translate call, made with its transcript and the selected
\* language Spanish, has succeeded.
C1_Witness ==
    \E j \in JobIds :
        /\ Quiet(j)
        /\ jobs[j].status = TRANSLATED
        /\ TruthyText(jobs[j].transcript)
        /\ jobs[j].targetLanguage.name = "Spanish"
        /\ jobs[j].translation = Some(TranslationOf(jobs[j].transcript.val, "Spanish"))
        /\ jobs[j].translation # jobs[j].transcript

(* C2: the step in which a translateText call fails leaves the job's
   transcript, status, translation and quotes as they were and sets error to a
   non-null message. *)
C2_TranslateFailureKeepsResults ==
    [][ \A c \in translateCalls :
            TranslateRejected(c) =>
                /\ jobs'[c.job].transcript = jobs[c.job].transcript
                /\ jobs'[c.job].status = jobs[c.job].status
                /\ jobs'[c.job].translation = jobs[c.job].translation
                /\ jobs'[c.job].script = jobs[c.job].script
                /\ jobs'[c.job].error # Null
                /\ jobs'[c.job].error.tag = "some"
                /\ jobs'[c.job].error.val # ""
      ]_vars

\* A Completed job whose only translate call has failed.
C2_Witness ==
    \E j \in JobIds :
        /\ Quiet(j)
        /\ jobs[j].status = COMPLETED
        /\ TruthyText(jobs[j].transcript)
        /\ jobs[j].translation = Null
        /\ jobs[j].error = Some(TranslateError)
        /\ ~jobs[j].isTranslating

(* C3: the step in which a generateScript call fails leaves the job's
   transcript, translation, quotes and status as they were and sets error to a
   non-null message. *)
C3_ExtractionFailureKeepsResults ==
    [][ \A c \in generateCalls :
            GenerateRejected(c) =>
                /\ jobs'[c.job].transcript = jobs[c.job].transcript
                /\ jobs'[c.job].translation = jobs[c.job].translation
                /\ jobs'[c.job].script = jobs[c.job].script
                /\ jobs'[c.job].status = jobs[c.job].status
                /\ jobs'[c.job].error # Null
                /\ jobs'[c.job].error.tag = "some"
                /\ jobs'[c.job].error.val # ""
      ]_vars

\* A job that kept its transcript, its translation, the quotes of an earlier
\* extraction and its status Translated when its extraction failed.
C3_Witness ==
    \E j \in JobIds :
        /\ Quiet(j)
        /\ jobs[j].status = TRANSLATED
        /\ TruthyText(jobs[j].transcript)
        /\ TruthyText(jobs[j].translation)
        /\ jobs[j].script.tag = "some"
        /\ jobs[j].error = Some(GenerateError)
        /\ ~jobs[j].isGenerating

(* C4: in every reachable state, a job's translation is non-null only if its
   transcript is non-null, and its quotes are non-null only if its translation
   is non-null. *)
C4_ArtifactsInOrder ==
    \A j \in JobIds :
        /\ jobs[j].translation # Null => jobs[j].transcript # Null
        /\ jobs[j].script # Null => jobs[j].translation # Null

\* A job holding all three artifacts after a transcription of it has failed.
C4_Witness ==
    \E j \in JobIds :
        /\ jobs[j].status = ERROR
        /\ jobs[j].transcript # Null
        /\ jobs[j].translation # Null
        /\ jobs[j].script # Null

(* C5: whenever handleGenerateScript runs for a job whose translation is
   timecoded SRT (its timecodes were requested), the text of the generateScript
   call it issues is the SRT-filtered translation and has no timecode line and
   no counter line. *)
C5_ExtractionGetsFilteredText ==
    [][ \A j \in JobIds :
            (handleGenerateScript(j) /\ hasSrtTimecodes(jobs[j].translation.val)) =>
                \A c \in generateCalls' \ generateCalls :
                    /\ c.text = stripSrtTimecodes(jobs[j].translation.val)
                    /\ ~HasTimecodeOrCounterLine(c.text)
      ]_vars

(* C6: every step that stores a result and sets a success status (Completed
   after transcription, Translated after translation, Summarized after
   extraction) leaves the job with error = null. *)
C6_SuccessLeavesNoError ==
    [][ /\ \A c \in transcribeCalls :
              TranscribeResolved(c) => jobs'[c.job].error = Null
        /\ \A c \in translateCalls :
              TranslateResolved(c) => jobs'[c.job].error = Null
        /\ \A c \in generateCalls :
              (\E result \in GenerateResults(c.text) : GenerateResolved(c, result))
                  => jobs'[c.job].error = Null
      ]_vars

\* The completion, with success or failure, of remote call c.
Completes(c) ==
    \/ c \in transcribeCalls /\ (TranscribeResolved(c) \/ TranscribeRejected(c))
    \/ c \in translateCalls /\ (TranslateResolved(c) \/ TranslateRejected(c))
    \/ /\ c \in generateCalls
       /\ \/ \E result \in GenerateResults(c.text) : GenerateResolved(c, result)
          \/ GenerateRejected(c)

(* C7: the completion (failure or success) of a remote call of job A changes
   no state of any other job B, and neither removes nor adds a call or a
   scheduled effect of B. *)
C7_JobsAreIsolated ==
    [][ \A c \in transcribeCalls \cup translateCalls \cup generateCalls :
            Completes(c) =>
                \A b \in JobIds \ {c.job} :
                    /\ jobs'[b] = jobs[b]
                    /\ {d \in transcribeCalls' : d.job = b} = {d \in transcribeCalls : d.job = b}
                    /\ {d \in translateCalls' : d.job = b} = {d \in translateCalls : d.job = b}
                    /\ {d \in generateCalls' : d.job = b} = {d \in generateCalls : d.job = b}
                    /\ (b \in pendingEffects') = (b \in pendingEffects)
      ]_vars

\* Job 1 has failed its transcription while job 2 holds its transcript and
\* has a translation in flight.
C7_Witness ==
    /\ Len(jobs) = 2
    /\ jobs[1].status = ERROR
    /\ jobs[1].error = Some(TranscribeError)
    /\ jobs[2].status = COMPLETED
    /\ jobs[2].error = Null
    /\ TruthyText(jobs[2].transcript)
    /\ \E d \in translateCalls : d.job = 2

(* C8: no two entries of the processing queue have the same
   (name, size, lastModified) triple. *)
C8_NoDuplicateJobs ==
    \A i, k \in 1..Len(files) : i # k => ~SameFile(files[i], files[k])

(* C9: within one job at most one remote call (transcription, translation or
   extraction) is in flight at any time. *)
C9_OneCallInFlight ==
    \A j \in JobIds : InFlight(j) <= 1

(* C10: transcription is invoked once per job, at its creation: no step issues
   a transcription call for a job that has left Pending, replaces a stored
   transcript, or moves a job from Completed, Translated or Summarized to
   Transcribing or Completed. *)
C10_TranscribedOnce ==
    [][ \A j \in JobIds :
            /\ (\E c \in transcribeCalls' \ transcribeCalls : c.job = j)
                  => jobs[j].status = PENDING
            /\ jobs[j].transcript # Null => jobs'[j].transcript = jobs[j].transcript
            /\ jobs[j].status \in {COMPLETED, TRANSLATED, SUMMARIZED}
                  => \/ jobs'[j].status = jobs[j].status
                     \/ jobs'[j].status \notin {TRANSCRIBING, COMPLETED}
      ]_vars

(* C11: in every reachable state in which a job's error is non-null and no
   transcription of the job is in flight or scheduled, the card shows the
   error message: inline next to the artifacts produced so far, or in the
   error panel when there is no transcript. *)
C11_ErrorIsDisplayed ==
    \A j \in JobIds :
        (/\ jobs[j].error # Null
         /\ j \notin pendingEffects
         /\ \A c \in transcribeCalls : c.job # j)
            => ErrorPanelShown(jobs[j]) \/ ErrorInlineShown(jobs[j])

(* C12: the Generate Script action is offered exactly when the job's status is
   Translated or Summarized and a translation exists. *)
C12_GenerateOfferedFromTranslatedOn ==
    \A j \in JobIds :
        GenerateOffered(jobs[j]) <=>
            /\ jobs[j].status \in {TRANSLATED, SUMMARIZED}
            /\ TruthyText(jobs[j].translation)

(* C13: the Translate action is offered exactly when the job's status is
   Completed, Translated or Summarized and a transcript exists; it is never
   offered in Pending, Transcribing or Error. *)
C13_TranslateOfferedFromCompletedOn ==
    \A j \in JobIds :
        TranslateOffered(jobs[j]) <=>
            /\ jobs[j].status \in {COMPLETED, TRANSLATED, SUMMARIZED}
            /\ TruthyText(jobs[j].transcript)

(* C19: whenever the timecode option is enabled and the card of a job shows a
   transcript, the transcript SRT download is offered, also without a
   translation; and whenever it shows a translation, the translation SRT
   download is offered. *)
C19_SrtExportNeedsOnlyItsText ==
    \A j \in JobIds :
        (addTimecodes /\ BodyShown(jobs[j])) =>
            /\ TruthyText(jobs[j].transcript) => SrtDownloadOffered(jobs[j], addTimecodes)
            /\ TruthyText(jobs[j].translation) => SrtDownloadOffered(jobs[j], addTimecodes)

(* C20: a job never has status Summarized with its quotes absent (null or
   undefined): an extraction whose response lacks the quotes list fails. *)
C20_SummarizedHasQuotes ==
    \A j \in JobIds :
        jobs[j].status = SUMMARIZED => jobs[j].script.tag = "some"

----------------------------------------------------------------------------
(* The SRT filter on its own: stripSrtTimecodes applied to a text *)

\* The longest text, in pieces.
MaxPieces == 5

TimecodeLine == Stamp("1") \o <<" ", "-", "-", ">", " ">> \o Stamp("2")

\* What the texts are made of: a word, a counter, a blank, the line ends, a
\* bare arrow and a well-formed timecode range.
Pieces ==
    { <<"a">>, <<"1">>, <<" ">>, <<"\r">>, <<"\n">>, <<"-", "-", ">">>, TimecodeLine }

RECURSIVE Concat(_)
Concat(ps) == IF ps = <<>> THEN <<>> ELSE Head(ps) \o Concat(Tail(ps))

Texts == {Concat(ps) : ps \in UNION {[1..n -> Pieces] : n \in 0..MaxPieces}}

InitFilter ==
    /\ files = <<>>
    /\ addTimecodes = TRUE
    /\ jobs = <<>>
    /\ pendingEffects = {}
    /\ transcribeCalls = {}
    /\ translateCalls = {}
    /\ generateCalls = {}
    /\ callsLeft = 0
    /\ arg \in Texts
    /\ out = Null

\* const cleaned = stripSrtTimecodes(text)
ApplyFilter ==
    /\ out = Null
    /\ out' = Some(stripSrtTimecodes(arg))
    /\ UNCHANGED <<files, addTimecodes, jobs, pendingEffects, transcribeCalls,
                   translateCalls, generateCalls, callsLeft, arg>>

NextFilter == ApplyFilter

SpecFilter == InitFilter /\ [][NextFilter]_vars

(* C14: the SRT filter is idempotent: filtering its own output returns that
   output unchanged, for every text, with CR, LF or CRLF line ends; and the
   empty text gives the empty text. *)
C14_FilterIsIdempotent ==
    out # Null =>
        /\ stripSrtTimecodes(out.val) = out.val
        /\ arg = <<>> => out.val = <<>>

(* C15: the output of the SRT filter is exactly the input lines that are
   neither purely numeric, nor a timecode range HH:MM:SS,mmm --> HH:MM:SS,mmm
   (blanks around its parts allowed), nor blank, in their order, unaltered
   and newline-joined. *)
C15_FilterRemovesExactlyCuesAndBlanks ==
    LET IsTimecodeRangeLine(line) ==
            LET l == Trim(line)
            IN /\ StampAt(l, 1)
               /\ \E a \in 13..Len(l) :
                     /\ \A k \in 13..(a - 1) : IsSpace(l[k])
                     /\ a + 2 <= Len(l)
                     /\ l[a] = "-" /\ l[a + 1] = "-" /\ l[a + 2] = ">"
                     /\ \E b \in (a + 3)..Len(l) :
                           /\ \A k \in (a + 3)..(b - 1) : IsSpace(l[k])
                           /\ StampAt(l, b)
                           /\ b + 11 = Len(l)
        Remains(line) ==
            /\ ~IsAllDigits(Trim(line))
            /\ ~IsTimecodeRangeLine(line)
            /\ Trim(line) # <<>>
    IN out # Null =>
           out.val = JoinLines(SelectSeq(SplitLines(arg), Remains))

----------------------------------------------------------------------------
(* The names of the exported files *)

\* The longest source file name.
MaxNameLen == 4

NameChars == {"a", "b", "."}

FileNames == UNION {[1..n -> NameChars] : n \in 1..MaxNameLen}

\* name.split('.')
RECURSIVE SplitDotFrom(_, _, _, _)
SplitDotFrom(s, i, cur, acc) ==
    IF i > Len(s) THEN Append(acc, cur)
    ELSE IF s[i] = "." THEN SplitDotFrom(s, i + 1, <<>>, Append(acc, cur))
    ELSE SplitDotFrom(s, i + 1, Append(cur, s[i]), acc)

SplitDot(name) == SplitDotFrom(name, 1, <<>>, <<>>)

\* parts.join('.')
RECURSIVE JoinDot(_)
JoinDot(parts) ==
    IF parts = <<>> THEN <<>>
    ELSE IF Len(parts) = 1 THEN parts[1]
    ELSE parts[1] \o <<".">> \o JoinDot(Tail(parts))

\* parts.pop()
Pop(parts) == IF parts = <<>> THEN <<>> ELSE SubSeq(parts, 1, Len(parts) - 1)

ProcessedSuffix ==
    <<"_", "p", "r", "o", "c", "e", "s", "s", "e", "d", ".", "d", "o", "c", "x">>

formatFileName(name) == JoinDot(Pop(SplitDot(name))) \o ProcessedSuffix

\* name.lastIndexOf('.'), counted from 0; -1 when there is none
LastIndexOfDot(name) ==
    IF \E i \in 1..Len(name) : name[i] = "."
    THEN (CHOOSE i \in 1..Len(name) :
              /\ name[i] = "."
              /\ \A k \in (i + 1)..Len(name) : name[k] # ".") - 1
    ELSE -1

\* s.substring(0, end): a negative end counts as 0
SubstringTo(s, end) ==
    LET e == IF end < 0 THEN 0 ELSE IF end > Len(s) THEN Len(s) ELSE end
    IN SubSeq(s, 1, e)

\* file.name.substring(0, file.name.lastIndexOf('.')) || file.name
baseName(name) ==
    LET cut == SubstringTo(name, LastIndexOfDot(name))
    IN IF cut # <<>> THEN cut ELSE name

TranscriptSuffix ==
    <<"_", "t", "r", "a", "n", "s", "c", "r", "i", "p", "t", ".", "s", "r", "t">>

TranslationSuffix ==
    <<"_", "t", "r", "a", "n", "s", "l", "a", "t", "i", "o", "n", ".", "s", "r", "t">>

\* a.download = `${baseName}_${type}.srt`
srtFileName(name, type) ==
    baseName(name) \o (IF type = "transcript" THEN TranscriptSuffix
                                               ELSE TranslationSuffix)

InitFileName ==
    /\ files = <<>>
    /\ addTimecodes = TRUE
    /\ jobs = <<>>
    /\ pendingEffects = {}
    /\ transcribeCalls = {}
    /\ translateCalls = {}
    /\ generateCalls = {}
    /\ callsLeft = 0
    /\ arg \in FileNames
    /\ out = Null

\* the a.download of the three exports of one source file
NameExports ==
    /\ out = Null
    /\ out' = Some([docx |-> formatFileName(arg),
                    transcriptSrt |-> srtFileName(arg, "transcript"),
                    translationSrt |-> srtFileName(arg, "translation")])
    /\ UNCHANGED <<files, addTimecodes, jobs, pendingEffects, transcribeCalls,
                   translateCalls, generateCalls, callsLeft, arg>>

NextFileName == NameExports

SpecFileName == InitFileName /\ [][NextFileName]_vars

(* C18: the document export is named by the base name the SRT exports use,
   followed by "_processed.docx": the source name with only its final
   extension replaced; a source name without an extension keeps its whole
   name as the base. *)
C18_DocxNamedLikeSrtExports ==
    out # Null =>
        \E base \in {SubSeq(arg, 1, n) : n \in 0..Len(arg)} :
            /\ out.val.transcriptSrt = base \o TranscriptSuffix
            /\ out.val.translationSrt = base \o TranslationSuffix
            /\ out.val.docx = base \o ProcessedSuffix
            /\ (\A i \in 1..Len(arg) : arg[i] # ".") => base = arg

----------------------------------------------------------------------------
(* Quotes grouped by speaker: the reduce into an object and Object.entries *)

\* The longest quote list.
MaxQuotes == 3

Speakers == { <<"A">>, <<"B">>, <<"1">>, <<"2">>, <<"0", "1">> }

QuoteTexts == { <<"x">>, <<"y">> }

ScriptQuotes == [speaker : Speakers, quote : QuoteTexts]

QuoteLists == UNION {[1..n -> ScriptQuotes] : n \in 0..MaxQuotes}

\* (acc[q.speaker] = acc[q.speaker] || []).push(q): acc as the list of its
\* properties in the order they were created
AddQuote(acc, q) ==
    IF \E i \in 1..Len(acc) : acc[i].key = q.speaker
    THEN [i \in 1..Len(acc) |->
             IF acc[i].key = q.speaker
             THEN [acc[i] EXCEPT !.quotes = Append(@, q)]
             ELSE acc[i]]
    ELSE Append(acc, [key |-> q.speaker, quotes |-> <<q>>])

\* quotes.reduce((acc, q) => ..., {})
RECURSIVE ReduceQuotes(_, _)
ReduceQuotes(acc, quotes) ==
    IF quotes = <<>> THEN acc
    ELSE ReduceQuotes(AddQuote(acc, Head(quotes)), Tail(quotes))

quotesBySpeaker(quotes) == ReduceQuotes(<<>>, quotes)

DigitSeq == <<"0", "1", "2", "3", "4", "5", "6", "7", "8", "9">>

DigitValue(c) == (CHOOSE i \in 1..10 : DigitSeq[i] = c) - 1

RECURSIVE ToNumber(_)
ToNumber(s) ==
    IF s = <<>> THEN 0
    ELSE 10 * ToNumber(SubSeq(s, 1, Len(s) - 1)) + DigitValue(s[Len(s)])

\* A property key that is an array index: the canonical decimal form of an
\* integer below 2^32 - 1 ("1", "20", but not "01").
IsArrayIndex(key) ==
    /\ IsAllDigits(key)
    /\ Len(key) = 1 \/ key[1] # "0"
    /\ Len(key) <= 9

\* The i-th smallest element of a set of numbers.
RECURSIVE SortNumbers(_)
SortNumbers(S) ==
    IF S = {} THEN <<>>
    ELSE LET m == CHOOSE x \in S : \A y \in S : x <= y
         IN <<m>> \o SortNumbers(S \ {m})

\* Object.entries(obj): the integer keys in ascending numeric order first,
\* then the string keys in the order of their creation.
ObjectEntries(obj) ==
    LET indexed == SelectSeq(obj, LAMBDA e : IsArrayIndex(e.key))
        named == SelectSeq(obj, LAMBDA e : ~IsArrayIndex(e.key))
        order == SortNumbers({ToNumber(indexed[i].key) : i \in 1..Len(indexed)})
        ByNumber(n) == CHOOSE e \in {indexed[i] : i \in 1..Len(indexed)} :
                           ToNumber(e.key) = n
    IN [i \in 1..Len(order) |-> ByNumber(order[i])] \o named

\* Object.entries(quotesBySpeaker).flatMap / .map: a heading per speaker,
\* each followed by that speaker's quotes
RECURSIVE FlatMapSections(_)
FlatMapSections(entries) ==
    IF entries = <<>> THEN <<>>
    ELSE LET e == Head(entries)
         IN <<[heading |-> e.key]>>
            \o [i \in 1..Len(e.quotes) |-> [blockquote |-> e.quotes[i].quote]]
            \o FlatMapSections(Tail(entries))

quoteSections(quotes) == FlatMapSections(ObjectEntries(quotesBySpeaker(quotes)))

InitQuotes ==
    /\ files = <<>>
    /\ addTimecodes = TRUE
    /\ jobs = <<>>
    /\ pendingEffects = {}
    /\ transcribeCalls = {}
    /\ translateCalls = {}
    /\ generateCalls = {}
    /\ callsLeft = 0
    /\ arg \in QuoteLists
    /\ out = Null

\* The "Key Quotes" of the document and the quote list on the screen.
RenderQuotes ==
    /\ out = Null
    /\ out' = Some(quoteSections(arg))
    /\ UNCHANGED <<files, addTimecodes, jobs, pendingEffects, transcribeCalls,
                   translateCalls, generateCalls, callsLeft, arg>>

NextQuotes == RenderQuotes

SpecQuotes == InitQuotes /\ [][NextQuotes]_vars

(* C17: the quotes are shown grouped by speaker, the groups in the order in
   which the speakers first appear in the quote list and each group's quotes
   in the order of the list, for every speaker label, digit-only labels
   included. *)
C17_GroupsInFirstAppearanceOrder ==
    LET First(sp) == CHOOSE i \in 1..Len(arg) :
                         /\ arg[i].speaker = sp
                         /\ \A k \in 1..(i - 1) : arg[k].speaker # sp
        firsts == SelectSeq([i \in 1..Len(arg) |-> i],
                            LAMBDA i : First(arg[i].speaker) = i)
        Group(sp) == SelectSeq(arg, LAMBDA q : q.speaker = sp)
        RECURSIVE Expected(_)
        Expected(is) ==
            IF is = <<>> THEN <<>>
            ELSE LET sp == arg[Head(is)].speaker
                     g == Group(sp)
                 IN <<[heading |-> sp]>>
                    \o [i \in 1..Len(g) |-> [blockquote |-> g[i].quote]]
                    \o Expected(Tail(is))
    IN out # Null => out.val = Expected(firsts)

----------------------------------------------------------------------------
(* The document export of one job *)

\* Remote calls of the job whose document is exported.
MaxExportCalls == 3

\* String.prototype.split('\n')
SplitLf(s) == SplitLfFrom(s, 1, <<>>, <<>>)

TitlePrefix ==
    <<"P", "r", "o", "c", "e", "s", "s", "e", "d", " ", "A", "u", "d", "i", "o", ":", " ">>

\* generateDocx: the document handed to the browser and the name it is
\* saved under
generateDocx(fileName, transcript, translation, quotes) ==
    LET cleanTranscript == stripSrtTimecodes(transcript)
        cleanTranslation == stripSrtTimecodes(translation)
    IN [download |-> formatFileName(fileName),
        title |-> TitlePrefix \o fileName,
        transcription |-> SplitLf(cleanTranscript),
        translation |-> SplitLf(cleanTranslation),
        keyQuotes |-> quoteSections(quotes)]

\* What the handler reads from the render it belongs to.
ExportInputs(j) ==
    [transcript |-> jobs[j].transcript, translation |-> jobs[j].translation,
     script |-> jobs[j].script]

\* As handleDownloadDocx, but without the check of the quotes.
handleDownloadDocxUnchecked(j) ==
    /\ Idle
    /\ arg' = ExportInputs(j)
    /\ out' = IF ~TruthyText(jobs[j].transcript) \/ ~TruthyText(jobs[j].translation)
              THEN out
              ELSE Some(generateDocx(files[j].name, jobs[j].transcript.val,
                                     jobs[j].translation.val,
                                     IF jobs[j].script.tag = "some"
                                     THEN jobs[j].script.val ELSE <<>>))
    /\ UNCHANGED <<files, addTimecodes, jobs, pendingEffects, transcribeCalls,
                   translateCalls, generateCalls, callsLeft>>

\* handleDownloadDocx, called in any state of the job: the handler checks
\* the three fields itself.
handleDownloadDocx(j) ==
    /\ Idle
    /\ arg' = ExportInputs(j)
    /\ out' = IF \/ ~TruthyText(jobs[j].transcript)
                 \/ ~TruthyText(jobs[j].translation)
                 \/ ~TruthyList(jobs[j].script)
              THEN out
              ELSE Some(generateDocx(files[j].name, jobs[j].transcript.val,
                                     jobs[j].translation.val, jobs[j].script.val))
    /\ UNCHANGED <<files, addTimecodes, jobs, pendingEffects, transcribeCalls,
                   translateCalls, generateCalls, callsLeft>>

InitExport ==
    /\ \E f \in FileSet : files = <<f>>
    /\ addTimecodes = TRUE
    /\ jobs = <<NewJob>>
    /\ pendingEffects = {1}
    /\ transcribeCalls = {}
    /\ translateCalls = {}
    /\ generateCalls = {}
    /\ callsLeft = MaxExportCalls
    /\ arg = Null
    /\ out = Null

NextExport ==
    \/ NextJob
    \/ \E j \in JobIds : handleDownloadDocx(j)

SpecExport == InitExport /\ [][NextExport]_vars

\* The job holds a transcript, a translation and quotes.
AllPresent(job) ==
    /\ job.transcript.tag = "some"
    /\ job.translation.tag = "some"
    /\ job.script.tag = "some"

(* C16: the document export hands over a document only when the job's
   transcript, translation and quotes are all present; when one of them is
   missing it does nothing: no document, and no state of the job changes. *)
C16_ExportOnlyWhenAllPresent ==
    [][\A j \in JobIds :
          handleDownloadDocx(j) =>
              /\ jobs' = jobs
              /\ out' # out => AllPresent(jobs[j])
              /\ ~AllPresent(jobs[j]) => out' = out]_vars

\* The export of a job that holds all three has handed over the document
\* with its key quotes.
C16_Witness ==
    /\ out # Null
    /\ arg # Null
    /\ arg.transcript.tag = "some" /\ arg.translation.tag = "some"
    /\ arg.script.tag = "some"
    /\ out.val.keyQuotes # <<>>

----------------------------------------------------------------------------
(* translateText's choice of prompt against the SRT filter *)

(* C22: translateText takes the prompt that preserves timecodes exactly for
   the texts from which the SRT filter removes a timecode line: for every
   text, hasSrtTimecodes(text) holds if and only if stripSrtTimecodes treats
   some line of the text as a timecode. *)
C22_PreserveTemplateIffFilterSeesTimecode ==
    out # Null =>
        (hasSrtTimecodes(arg)
            <=> \E i \in 1..Len(SplitLines(arg)) : IncludesArrow(SplitLines(arg)[i]))

----------------------------------------------------------------------------
(* The in-flight flags of one job, the early returns of the handlers included *)

\* Remote calls of the job whose flags are followed.
MaxFlagCalls == 4

\* handleTranslate: if (!transcript) return;
handleTranslateNoTranscript(j) ==
    /\ Idle
    /\ j \in JobIds
    /\ ~TruthyText(jobs[j].transcript)
    /\ arg' = [handler |-> "handleTranslate", job |-> j]
    /\ UNCHANGED <<out, files, addTimecodes, jobs, pendingEffects, transcribeCalls,
                   translateCalls, generateCalls, callsLeft>>

\* handleGenerateScript: if (!translation) return;
handleGenerateScriptNoTranslation(j) ==
    /\ Idle
    /\ j \in JobIds
    /\ ~TruthyText(jobs[j].translation)
    /\ arg' = [handler |-> "handleGenerateScript", job |-> j]
    /\ UNCHANGED <<out, files, addTimecodes, jobs, pendingEffects, transcribeCalls,
                   translateCalls, generateCalls, callsLeft>>

InitFlags ==
    /\ \E f \in FileSet : files = <<f>>
    /\ addTimecodes = TRUE
    /\ jobs = <<NewJob>>
    /\ pendingEffects = {1}
    /\ transcribeCalls = {}
    /\ translateCalls = {}
    /\ generateCalls = {}
    /\ callsLeft = MaxFlagCalls
    /\ arg = Null
    /\ out = Null

NextFlags ==
    \/ NextJob
    \/ \E j \in JobIds : handleTranslateNoTranscript(j)
    \/ \E j \in JobIds : handleGenerateScriptNoTranslation(j)

SpecFlags == InitFlags /\ [][NextFlags]_vars

(* C25: isTranslating (isGenerating) is true exactly while a translateText
   (generateScript) call of the job is in flight, so it is reset when the
   call succeeds and when it fails; and handleTranslate without a transcript
   (handleGenerateScript without a translation) sets no flag and changes no
   state of the job. *)
C25_FlagsTrackCalls ==
    /\ [](\A j \in JobIds :
             /\ jobs[j].isTranslating <=> \E c \in translateCalls : c.job = j
             /\ jobs[j].isGenerating <=> \E c \in generateCalls : c.job = j)
    /\ [][\A j \in JobIds :
             handleTranslateNoTranscript(j) \/ handleGenerateScriptNoTranslation(j)
                 => /\ jobs' = jobs
                    /\ translateCalls' = translateCalls
                    /\ generateCalls' = generateCalls]_vars

\* handleTranslate returned early while the transcript was awaited; later a
\* translation was stored and its flag reset, and an extraction is in flight.
C25_Witness ==
    /\ arg # Null
    /\ jobs[1].translation.tag = "some"
    /\ ~jobs[1].isTranslating
    /\ jobs[1].isGenerating
    /\ \E c \in generateCalls : c.job = 1

----------------------------------------------------------------------------
(* Races between the calls of one job *)

(* C24: when several transcribeAudio calls of a job were in flight, the
   transcript stored once all of them have settled is the result of the call
   issued last: the result that arrives when no other transcription of the
   job is in flight or scheduled was asked for with the current timecode
   preference. *)
C24_LastIssuedTranscriptionWins ==
    [][ \A c \in transcribeCalls :
            ( /\ TranscribeResolved(c)
              /\ c.job \notin pendingEffects
              /\ \A d \in transcribeCalls \ {c} : d.job # c.job )
                => c.addTimecodes = addTimecodes
      ]_vars

(* C23: under every interleaving of the completions, a job in status
   Translated or Summarized holds the translation of the transcript it holds
   (into one of the languages), and a job in status Summarized holds the
   quotes extracted from the translation it holds. *)
C23_ArtifactsDeriveFromStoredInputs ==
    \A j \in JobIds :
        /\ jobs[j].status \in {TRANSLATED, SUMMARIZED} =>
              \E k \in 1..Len(LANGUAGES) :
                  jobs[j].translation =
                      Some(TranslationOf(jobs[j].transcript.val, LANGUAGES[k].name))
        /\ (jobs[j].status = SUMMARIZED /\ jobs[j].script.tag = "some") =>
              \E withTimecodes \in BOOLEAN :
                  jobs[j].script =
                      Some(QuotesOf(textForScript(withTimecodes, jobs[j].translation)))

----------------------------------------------------------------------------
(* Progress of one job *)

\* Some remote call in flight completes or fails.
SomeCallSettles ==
    \E c \in transcribeCalls \cup translateCalls \cup generateCalls : Completes(c)

\* React runs a scheduled effect after the commit, and every issued call
\* completes or fails; nothing is assumed of the user's clicks.
FairSpecJob ==
    /\ SpecJob
    /\ WF_vars(\E j \in JobIds : processTranscription(j))
    /\ WF_vars(SomeCallSettles)

(* C21: the job of the card leaves Pending for Transcribing, and, every issued
   call completing or failing, a job that is Pending or Transcribing
   eventually is Completed with a transcript stored and no error, or is in
   Error with an error stored: it stays in neither status forever. *)
C21_TranscriptionSettles ==
    /\ (jobs[1].status = PENDING) ~> (jobs[1].status = TRANSCRIBING)
    /\ (jobs[1].status \in {PENDING, TRANSCRIBING}) ~>
          \/ /\ jobs[1].status = COMPLETED
             /\ jobs[1].transcript # Null
             /\ jobs[1].error = Null
          \/ /\ jobs[1].status = ERROR
             /\ jobs[1].error # Null

====
